---- MODULE Spec2Model ----
(***************************************************************************)
(* Model of src/multilevel_regression.py: the MultiLevelModel fit/predict  *)
(* life cycle with its three builders (PoolLinearModel, UnpoolModel,       *)
(* PartialPoolModel), PoolLinearModel.predict, and the cv helper.          *)
(*                                                                         *)
(* Library calls are modelled by what they do to the values the program    *)
(* handles: pm.Model registers variables by name and refuses a duplicate;  *)
(* inside a pm.Model context theano computes test values, so an index or   *)
(* shape error is raised while the graph is built; pm.sample returns one   *)
(* sample store per chain; slicing that result slices every chain;         *)
(* indexing it by a variable name concatenates the chains.                 *)
(* Real numbers are small integers; an average is kept as the pair         *)
(* (sum, count) so that no rounding is introduced.                         *)
(***************************************************************************)
EXTENDS Integers, Sequences, FiniteSets, TLC

VARIABLES
  variant,      \* which subclass the instance is
  trace_,       \* self.trace_
  model_,       \* self.model_
  n_groups_,    \* self.n_groups_
  n_features_,  \* self.n_features_
  fitCount,     \* history: how many traces fit has stored so far
  fitCfg,       \* history: the configuration of the fit that stored trace_
  last,         \* history: the most recent fit or predict call and its outcome
  cvs           \* the cv call in progress

vars == <<variant, trace_, model_, n_groups_, n_features_, fitCount, fitCfg,
          last, cvs>>

instance == <<trace_, model_, n_groups_, n_features_>>

----------------------------------------------------------------------------
(* Bounds of the model *)

MaxFits == 2
MaxDraws == 2
MaxChains == 2
MaxObs == 2
MaxRows == 2
MaxQ == 2
MaxSplits == 4
MaxSamples == 6

----------------------------------------------------------------------------
(* Python values *)

\* Python's None and a held object: an optional value is a sequence of
\* length 0 or 1.
None == <<>>

Some(x) == <<x>>

IsNone(o) == Len(o) = 0

Get(o) == o[1]

NoExc == "none"

Variants == {"Pooled", "Unpooled", "PartialPooled"}

RECURSIVE SumSeq(_)
SumSeq(s) == IF Len(s) = 0 THEN 0 ELSE Head(s) + SumSeq(Tail(s))

RECURSIVE Concat(_)
Concat(ss) == IF Len(ss) = 0 THEN <<>> ELSE Head(ss) \o Concat(Tail(ss))

Range(s) == {s[i] : i \in 1..Len(s)}

SeqsUpTo(S, n) == UNION {[1..k -> S] : k \in 0..n}

----------------------------------------------------------------------------
(* The model graphs: the declarations each builder makes, in source order *)

Decl(n, f, o) == [name |-> n, family |-> f, observed |-> o]

PooledDecls ==
  << Decl("alpha", "Normal", FALSE), Decl("beta", "Normal", FALSE),
     Decl("sigma", "HalfNormal", FALSE), Decl("nu", "Exponential", FALSE),
     Decl("y", "StudentT", TRUE) >>

UnpooledDecls ==
  << Decl("alpha", "Normal", FALSE), Decl("beta", "Normal", FALSE),
     Decl("sigma", "HalfNormal", FALSE), Decl("nu", "Exponential", FALSE),
     Decl("y", "StudentT", TRUE) >>

PartialPooledDecls ==
  << Decl("alpha_mu", "Normal", FALSE), Decl("sigma", "HalfNormal", FALSE),
     Decl("alpha", "Normal", FALSE), Decl("beta_mu", "Normal", FALSE),
     Decl("sigma", "HalfNormal", FALSE), Decl("beta", "Normal", FALSE),
     Decl("sigma", "HalfNormal", FALSE), Decl("nu", "Exponential", FALSE),
     Decl("y", "StudentT", TRUE),
     Decl("alpha_mu", "Normal", FALSE), Decl("alpha_sigma", "HalfCauchy", FALSE),
     Decl("alpha_t", "Normal", FALSE), Decl("alpha", "Deterministic", FALSE),
     Decl("beta_mu", "Normal", FALSE), Decl("beta_sigma", "HalfCauchy", FALSE),
     Decl("beta_t", "Normal", FALSE), Decl("beta", "Deterministic", FALSE),
     Decl("sigma", "HalfNormal", FALSE), Decl("nu", "Exponential", FALSE),
     Decl("y", "StudentT", TRUE) >>

Declarations(v) ==
  CASE v = "Pooled" -> PooledDecls
    [] v = "Unpooled" -> UnpooledDecls
    [] OTHER -> PartialPooledDecls

\* pm.Model: a declaration made inside the context is registered under its
\* name; a name already registered is refused with ValueError.
RECURSIVE Register(_, _)
Register(decls, graph) ==
  IF Len(decls) = 0 THEN [exc |-> NoExc, graph |-> Some(graph)]
  ELSE IF \E i \in 1..Len(graph) : graph[i].name = Head(decls).name
       THEN [exc |-> "ValueError", graph |-> None]
       ELSE Register(Tail(decls), Append(graph, Head(decls)))

----------------------------------------------------------------------------
(* fit's inputs *)

\* X has one feature and nX observations, y has nY observations; group is
\* the optional group_idx keyword.
GroupVals == -1..MaxObs

FitInputs ==
  [nX : 1..MaxObs, nY : 1..MaxObs,
   group : {None} \cup {Some(g) : g \in SeqsUpTo(GroupVals, MaxObs) \ {<<>>}}]

Configs == [draws : 1..MaxDraws, chains : 1..MaxChains, burn : 0..MaxDraws]

\* numpy broadcasting of two axis lengths
Broadcastable(a, b) == a = b \/ a = 1 \/ b = 1

\* np.unique(group_idx).shape[0]
NUnique(g) == Cardinality(Range(g))

\* numpy/theano integer indexing of an axis of length n: a negative index
\* counts from the end
IndexOk(i, n) == -n <= i /\ i < n

\* Two facts about a call's inputs that the properties below speak of (the
\* program computes neither): the observation counts of X, y and group_idx
\* agree ...
CountsAgree(in) ==
  in.nX = in.nY /\ (IsNone(in.group) \/ Len(Get(in.group)) = in.nX)

\* ... and every group index lies in [0, n_groups)
GroupsInRange(in) ==
  IsNone(in.group) \/
  \A i \in 1..Len(Get(in.group)) :
     0 <= Get(in.group)[i] /\ Get(in.group)[i] < NUnique(Get(in.group))

----------------------------------------------------------------------------
(* MultiLevelModel.__init__ *)

InstanceAttrs == {"trace_", "n_groups_", "n_features_", "model_"}

NoCall ==
  [op |-> "init", exc |-> NoExc, sampler |-> FALSE, hasGroup |-> FALSE,
   agree |-> TRUE, inrange |-> TRUE, cfg |-> None, id |-> 0,
   X |-> <<>>, q |-> None, result |-> None]

----------------------------------------------------------------------------
(* The three _build_model methods *)

Built(exc) == [exc |-> exc, graph |-> None]

\* PoolLinearModel._build_model: mu has shape (1, nX), y has shape (nY,)
BuildPooled(in) ==
  IF ~Broadcastable(in.nX, in.nY) THEN Built("ValueError")
  ELSE Register(PooledDecls, <<>>)

\* UnpoolModel._build_model: alpha and beta have shape (nX, n_groups);
\* alpha[:, group_idx] + dot(X, beta[:, group_idx]) has shape (nX, nG)
BuildUnpooled(in) ==
  IF IsNone(in.group) THEN Built("KeyError")
  ELSE LET g == Get(in.group)
           n_groups == NUnique(g)
       IN IF \E i \in 1..Len(g) : ~IndexOk(g[i], n_groups)
          THEN Built("IndexError")
          ELSE IF ~Broadcastable(Len(g), in.nY) THEN Built("ValueError")
          ELSE Register(UnpooledDecls, <<>>)

\* PartialPoolModel._build_model: reads self.n_groups, which __init__ never
\* sets (it sets n_groups_)
BuildPartialPooled(in) ==
  IF IsNone(in.group) THEN Built("KeyError")
  ELSE IF "n_groups" \notin InstanceAttrs THEN Built("AttributeError")
  ELSE LET g == Get(in.group)
           n_groups == NUnique(g)
       IN IF \E i \in 1..Len(g) : ~IndexOk(g[i], n_groups)
          THEN Built("IndexError")
          ELSE Register(PartialPooledDecls, <<>>)

_build_model(v, in) ==
  CASE v = "Pooled" -> BuildPooled(in)
    [] v = "Unpooled" -> BuildUnpooled(in)
    [] OTHER -> BuildPartialPooled(in)

----------------------------------------------------------------------------
(* pm.sample and the trace *)

TraceVars(graph) == {graph[i].name : i \in {j \in 1..Len(graph) : ~graph[j].observed}}

\* The value the sampler draws for variable v at draw i of chain c in the
\* id-th sampling run: alpha and beta any number, sigma > 0, nu > 0.
DrawVal(id, c, i, v) ==
  CASE v = "alpha" -> (id + c + i) % 3
    [] v = "beta" -> ((c + 2 * i + id) % 3) - 1
    [] v = "sigma" -> 1 + ((c + i) % 2)
    [] v = "nu" -> 1 + ((id + i) % 3)
    [] OTHER -> 0

\* pm.sample(draws, tune, chains, ...): one sample store per chain, each
\* holding `draws` post-tuning draws of every variable
Sample(graph, cfg, id) ==
  [id |-> id,
   straces |-> [c \in 1..cfg.chains |->
                  [v \in TraceVars(graph) |->
                     [i \in 1..cfg.draws |->
                        [draw |-> i - 1, val |-> DrawVal(id, c, i - 1, v)]]]]]

\* A slice that drops the first `burn` draws of the concatenated chains,
\* that is, of the first chain only
SliceCombined(t, burn) ==
  [id |-> t.id,
   straces |-> [c \in 1..Len(t.straces) |->
                  [v \in DOMAIN t.straces[c] |->
                     IF c = 1
                     THEN SubSeq(t.straces[c][v], burn + 1, Len(t.straces[c][v]))
                     ELSE t.straces[c][v]]]]

\* trace[burn:]: the slice is applied to every chain and every variable
Slice(t, burn) ==
  [id |-> t.id,
   straces |-> [c \in 1..Len(t.straces) |->
                  [v \in DOMAIN t.straces[c] |->
                     SubSeq(t.straces[c][v], burn + 1, Len(t.straces[c][v]))]]]

\* trace[varname]: the chains' values, concatenated
GetValues(t, v) == Concat([c \in 1..Len(t.straces) |-> t.straces[c][v]])

----------------------------------------------------------------------------
(* MultiLevelModel.fit *)

\* pm.sample(...)[burn:]
Retained(graph, cfg, id) == Slice(Sample(graph, cfg, id), cfg.burn)

\* What a fit call's inputs come to: what _build_model does with them, and
\* the facts about them that the call's record keeps
FitCase(v, in) ==
  [built |-> _build_model(v, in), hasGroup |-> ~IsNone(in.group),
   agree |-> CountsAgree(in), inrange |-> GroupsInRange(in)]

FitCases == [v \in Variants |-> {FitCase(v, in) : in \in FitInputs}]

\* The record of a fit call: what was passed and how it ended
FitCall(k, exc, sampler, cfg, id) ==
  [NoCall EXCEPT !.op = "fit", !.exc = exc, !.sampler = sampler,
                 !.hasGroup = k.hasGroup, !.agree = k.agree,
                 !.inrange = k.inrange, !.cfg = cfg, !.id = id]

\* fit, line 52: _build_model raises, and nothing is assigned
FitNotBuilt(k) ==
  /\ k.built.exc # NoExc
  /\ last' = FitCall(k, k.built.exc, FALSE, None, 0)
  /\ UNCHANGED <<trace_, model_, fitCount, fitCfg>>

\* fit, lines 52-57: model_ is assigned, then pm.sample raises
FitNotSampled(k) ==
  /\ k.built.exc = NoExc
  /\ model_' = k.built.graph
  /\ last' = FitCall(k, "SamplingError", TRUE, None, 0)
  /\ UNCHANGED <<trace_, fitCount, fitCfg>>

\* fit, lines 52-59: model_ is assigned, pm.sample returns, the sliced
\* trace is stored
FitSampled(k, cfg) ==
  /\ k.built.exc = NoExc
  /\ model_' = k.built.graph
  /\ trace_' = Some(Retained(Get(k.built.graph), cfg, fitCount + 1))
  /\ fitCount' = fitCount + 1
  /\ fitCfg' = Some(cfg)
  /\ last' = FitCall(k, NoExc, TRUE, Some(cfg), fitCount + 1)

Fit ==
  /\ fitCount < MaxFits
  /\ \E k \in FitCases[variant] :
         \/ FitNotBuilt(k)
         \/ FitNotSampled(k)
         \/ \E cfg \in Configs : FitSampled(k, cfg)
  /\ UNCHANGED <<variant, n_groups_, n_features_, cvs>>

----------------------------------------------------------------------------
(* PoolLinearModel.predict, MultiLevelModel.predict *)

Probs == {1, 2, 3}

\* X_new: an evenly spaced grid of rows, as line 270 passes
PredictX == {[i \in 1..n |-> i - 1] : n \in 1..MaxRows}

\* q: absent, or a sequence of up to MaxQ distinct probabilities
PredictQ ==
  {None} \cup
  {Some(q) : q \in {s \in SeqsUpTo(Probs, MaxQ) :
                       \A i, j \in 1..Len(s) : s[i] = s[j] => i = j}}

\* A number or +infinity
Fin(v) == [inf |-> FALSE, v |-> v]

Inf == [inf |-> TRUE, v |-> 0]

\* ndarray.mean over the draws axis: (sum, count); count 0 is numpy's nan
Average(xs) ==
  [inf |-> \E i \in 1..Len(xs) : xs[i].inf,
   sum |-> SumSeq([i \in 1..Len(xs) |-> xs[i].v]),
   n |-> Len(xs)]

\* The standard Student-t quantile at the p-th probability: increasing in
\* p, zero at the median, wider for fewer degrees of freedom
StdQuantile(p, df) == (p - 2) * (4 - df)

\* scipy.stats.t(df, loc, scale).mean(): loc when df > 1, infinite otherwise
TMean(d) == IF d.df > 1 THEN Fin(d.loc) ELSE Inf

\* scipy.stats.t(df, loc, scale).ppf(p)
TPpf(d, p) == Fin(d.loc + d.scale * StdQuantile(p, d.df))

\* line 97: mu[i][d] = alpha[d] + beta[d] * X[i]
Mu(t, X) ==
  LET alpha == GetValues(t, "alpha")
      beta == GetValues(t, "beta")
  IN [i \in 1..Len(X) |-> [d \in 1..Len(alpha) |-> alpha[d].val + beta[d].val * X[i]]]

\* line 98: one Student-t per row and draw
Dist(t, mu) ==
  LET nu == GetValues(t, "nu")
      sigma == GetValues(t, "sigma")
  IN [i \in 1..Len(mu) |->
        [d \in 1..Len(mu[i]) |->
           [df |-> nu[d].val, loc |-> mu[i][d], scale |-> sigma[d].val]]]

\* q in ascending order
Sorted(q) ==
  CHOOSE s \in [1..Len(q) -> Range(q)] :
    Range(s) = Range(q) /\ \A i, j \in 1..Len(q) : i < j => s[i] <= s[j]

\* Estimates that come in ascending order of probability, not in the
\* order requested
EstimatesSorted(dist, q) ==
  IF IsNone(q)
  THEN [kind |-> "mean",
        est |-> << [i \in 1..Len(dist) |->
                      Average([d \in 1..Len(dist[i]) |-> TMean(dist[i][d])])] >>]
  ELSE [kind |-> "quantiles",
        est |-> [k \in 1..Len(Get(q)) |->
                   [i \in 1..Len(dist) |->
                      Average([d \in 1..Len(dist[i]) |->
                                 TPpf(dist[i][d], Sorted(Get(q))[k])])]]]

\* lines 99-102
Estimates(dist, q) ==
  IF IsNone(q)
  THEN [kind |-> "mean",
        est |-> << [i \in 1..Len(dist) |->
                      Average([d \in 1..Len(dist[i]) |-> TMean(dist[i][d])])] >>]
  ELSE [kind |-> "quantiles",
        est |-> [k \in 1..Len(Get(q)) |->
                   [i \in 1..Len(dist) |->
                      Average([d \in 1..Len(dist[i]) |-> TPpf(dist[i][d], Get(q)[k])])]]]

PredictResult(t, X, q) ==
  LET dist == Dist(t, Mu(t, X)) IN
  [dist |-> dist, kind |-> Estimates(dist, q).kind, est |-> Estimates(dist, q).est]

PredictCall(X, q, exc, result) ==
  [NoCall EXCEPT !.op = "predict", !.exc = exc, !.X = X, !.q = q, !.result = result]

\* predict on an instance of class v whose trace_ is tr: only
\* PoolLinearModel overrides the base method, which raises
\* NotImplementedError; subscripting None raises TypeError
predict(v, tr, X, q) ==
  IF v # "Pooled" THEN PredictCall(X, q, "NotImplementedError", None)
  ELSE IF IsNone(tr) THEN PredictCall(X, q, "TypeError", None)
  ELSE PredictCall(X, q, NoExc, Some(PredictResult(Get(tr), X, q)))

\* A predict that drops a draw from the stored trace as it reads it
PredictConsuming ==
  /\ \E X \in PredictX, q \in PredictQ : last' = predict(variant, trace_, X, q)
  /\ trace_' = IF IsNone(trace_) THEN trace_ ELSE Some(Slice(Get(trace_), 1))
  /\ UNCHANGED <<variant, model_, n_groups_, n_features_, fitCount, fitCfg, cvs>>

Predict ==
  /\ \E X \in PredictX, q \in PredictQ : last' = predict(variant, trace_, X, q)
  /\ UNCHANGED <<variant, trace_, model_, n_groups_, n_features_, fitCount, fitCfg, cvs>>

----------------------------------------------------------------------------
(* cv *)

\* sklearn's KFold: the first n % k folds hold n \div k + 1 samples, the
\* others n \div k
FoldSize(n, k, i) == (n \div k) + (IF i < n % k THEN 1 ELSE 0)

\* np.empty_like(n_splits) of a Python int: an array of shape ()
EmptyLike(x) == [shape |-> <<>>, data |-> <<>>]

\* arr[i] = v
SetItem(arr, i, v) ==
  IF Len(arr.shape) = 0 \/ i >= arr.shape[1]
  THEN [exc |-> "IndexError", arr |-> arr]
  ELSE [exc |-> NoExc, arr |-> [arr EXCEPT !.data[i + 1] = v]]

CvIdle ==
  [pc |-> "idle", n_splits |-> 0, n |-> 0, i |-> 0, calls |-> 0,
   failed |-> {}, pred |-> 0, cv_scores |-> EmptyLike(0), exc |-> NoExc]

\* lines 222-224: KFold refuses n_splits < 2
CvCall ==
  /\ cvs.pc # "loop"
  /\ \E n_splits \in 1..MaxSplits, n \in 1..MaxSamples :
       cvs' = IF n_splits < 2
              THEN [CvIdle EXCEPT !.pc = "raised", !.n_splits = n_splits,
                                  !.n = n, !.exc = "ValueError"]
              ELSE [CvIdle EXCEPT !.pc = "loop", !.n_splits = n_splits,
                                  !.n = n, !.cv_scores = EmptyLike(n_splits)]
  /\ UNCHANGED <<variant, trace_, model_, n_groups_, n_features_, fitCount, fitCfg, last>>

\* lines 226-233: one turn of the loop. split refuses more folds than
\* samples; func() raises or returns r predictions; mean_squared_error
\* refuses predictions that are not as many as the fold's responses; the
\* score is stored in cv_scores[i]
CvFold ==
  /\ cvs.pc = "loop"
  /\ \E r \in 0..MaxSamples :
       cvs' =
         IF cvs.n_splits > cvs.n
         THEN [cvs EXCEPT !.pc = "raised", !.exc = "ValueError"]
         ELSE IF cvs.i = cvs.n_splits
         THEN [cvs EXCEPT !.pc = "returned"]
         ELSE IF r = 0
         THEN [cvs EXCEPT !.pc = "raised", !.exc = "FuncError",
                          !.calls = @ + 1, !.failed = @ \cup {cvs.i}]
         ELSE IF r # FoldSize(cvs.n, cvs.n_splits, cvs.i)
         THEN [cvs EXCEPT !.pc = "raised", !.exc = "ValueError",
                          !.calls = @ + 1, !.pred = r]
         ELSE LET set == SetItem(cvs.cv_scores, cvs.i, r) IN
              IF set.exc # NoExc
              THEN [cvs EXCEPT !.pc = "raised", !.exc = set.exc,
                               !.calls = @ + 1, !.pred = r]
              ELSE [cvs EXCEPT !.i = @ + 1, !.calls = @ + 1, !.pred = r,
                               !.cv_scores = set.arr]
  /\ UNCHANGED <<variant, trace_, model_, n_groups_, n_features_, fitCount, fitCfg, last>>

----------------------------------------------------------------------------
(* The instance's life cycle *)

Init ==
  /\ variant \in Variants
  /\ trace_ = None
  /\ n_groups_ = None
  /\ n_features_ = None
  /\ model_ = None
  /\ fitCount = 0
  /\ fitCfg = None
  /\ last = NoCall
  /\ cvs = CvIdle

Next == Fit \/ Predict

Spec == Init /\ [][Next]_vars

NextCV == CvCall \/ CvFold

SpecCV == Init /\ [][NextCV]_vars

----------------------------------------------------------------------------
(* Properties *)

Grouped == variant \in {"Unpooled", "PartialPooled"}

\* The most recent call was a fit whose inputs meet the caller's contract:
\* counts agree, group indices in range, a group index where one is needed
ValidFit ==
  /\ last.op = "fit"
  /\ last.agree /\ last.inrange
  /\ Grouped => last.hasGroup

\* The trace as the most recent successful fit stored it
StoredByFit == Some(Retained(Get(model_), Get(fitCfg), fitCount))

\* C1: a predict call made while no trace is stored fails with
\* NotFittedError, and a predict call made after a successful fit never
\* fails with NotFittedError.
C1_PredictUnfitRaisesNotFitted ==
  last.op = "predict" =>
    /\ IsNone(trace_) => last.exc = "NotFittedError"
    /\ ~IsNone(trace_) => last.exc # "NotFittedError"

\* C1, the case: predict was called on an instance that holds no trace
C1_Case == last.op = "predict" /\ IsNone(trace_) /\ fitCount = 0

\* C2: the instance is Unfit (no trace) or Fitted(trace); every fit call
\* with valid inputs (whose sampler did not itself raise) ends in Fitted
\* holding the trace that call produced, and no earlier one.
C2_ValidFitEndsFitted ==
  /\ IsNone(trace_) <=> fitCount = 0
  /\ (ValidFit /\ last.exc # "SamplingError") =>
        /\ last.exc = NoExc
        /\ ~IsNone(trace_)
        /\ Get(trace_).id = last.id
        /\ trace_ = StoredByFit

\* C2, the case: a fit call with valid inputs has ended
C2_Case == ValidFit /\ variant = "PartialPooled"

\* C3: a fit call on Unpooled or PartialPooled that is given no group
\* index fails with NotBuiltError, the sampler is not invoked and the
\* stored trace is unchanged; a fit call on Pooled needs no group index.
C3_NoGroupIndexRaisesNotBuilt ==
  [][ (last'.op = "fit" /\ ~last'.hasGroup) =>
        IF Grouped
        THEN last'.exc = "NotBuiltError" /\ ~last'.sampler /\ trace_' = trace_
        ELSE last'.exc \notin {"NotBuiltError", "KeyError"} ]_vars

\* C3, the case: a grouped variant was fitted without a group index
C3_Case == last.op = "fit" /\ ~last.hasGroup /\ Grouped

\* C4: a fit call whose inputs are structurally invalid (observation
\* counts disagree, or a group index outside [0, n_groups)) raises
\* ShapeMismatchError, and the sampler is not invoked in that call.
\* (A grouped variant given no group index at all is C3's case.)
C4_InvalidInputsRaiseShapeMismatch ==
  (last.op = "fit" /\ (~last.agree \/ ~last.inrange) /\ (Grouped => last.hasGroup)) =>
     last.exc = "ShapeMismatchError" /\ ~last.sampler

\* C4, the case: fit sampled and stored a trace on inputs with a group
\* index outside [0, n_groups)
C4_Case == last.op = "fit" /\ ~last.inrange /\ last.sampler /\ last.exc = NoExc

\* A graph with exactly one likelihood node and no name declared twice
OneLikelihood(graph) ==
  Cardinality({i \in 1..Len(graph) : graph[i].observed}) = 1

DistinctNames(graph) ==
  \A i, j \in 1..Len(graph) : graph[i].name = graph[j].name => i = j

\* C5: for each variant, the builder on valid inputs produces a graph
\* with exactly one likelihood node and no two declarations of one name.
C5_BuilderGraphWellFormed ==
  ValidFit =>
    /\ last.exc \in {NoExc, "SamplingError"}
    /\ ~IsNone(model_)
    /\ OneLikelihood(Get(model_))
    /\ DistinctNames(Get(model_))
    /\ OneLikelihood(Declarations(variant))
    /\ DistinctNames(Declarations(variant))

\* C5, the case: the PartialPooled builder ran on valid inputs
C5_Case == ValidFit /\ variant = "PartialPooled" /\ last.exc = "AttributeError"

\* C6: a predict call leaves the stored trace and the rest of the
\* instance unchanged; only a fit that succeeds replaces the trace; and
\* each predict call, after whatever calls came before it, returns what
\* the same call returns on the trace as fit stored it.
C6_PredictReadsOnly ==
  [][ /\ last'.op = "predict" => instance' = instance
      /\ trace_' # trace_ => (last'.op = "fit" /\ last'.exc = NoExc)
      /\ (last'.op = "predict" /\ ~IsNone(fitCfg')) =>
           last' = predict(variant', Some(Retained(Get(model_'), Get(fitCfg'), fitCount')),
                           last'.X, last'.q) ]_vars

\* C6, the case: a predict call has returned estimates from a stored
\* trace that holds draws
C6_Case ==
  /\ last.op = "predict" /\ last.exc = NoExc
  /\ Len(Get(last.result).dist[1]) > 0

\* C7: the stored trace holds none of the burn-in draws: of every chain
\* and every variable it holds exactly the draws burn, burn + 1, ...,
\* draws - 1, in order, so every variable has the same number of draws.
C7_BurnInExcluded ==
  ~IsNone(trace_) =>
    LET t == Get(trace_)
        cfg == Get(fitCfg)
        kept == IF cfg.draws > cfg.burn THEN cfg.draws - cfg.burn ELSE 0
    IN /\ Len(t.straces) = cfg.chains
       /\ \A c \in 1..Len(t.straces) : \A v \in DOMAIN t.straces[c] :
            /\ Len(t.straces[c][v]) = kept
            /\ \A i \in 1..kept : t.straces[c][v][i].draw = cfg.burn + i - 1
       /\ \A v \in TraceVars(Get(model_)) :
            /\ Len(GetValues(t, v)) = cfg.chains * kept
            /\ \A i \in 1..Len(GetValues(t, v)) : GetValues(t, v)[i].draw >= cfg.burn

\* C7, the case: a fit of several chains with burn-in draws to discard
\* and draws to keep has stored its trace
C7_Case ==
  /\ last.op = "fit" /\ last.exc = NoExc /\ ~IsNone(trace_)
  /\ Get(fitCfg).chains > 1 /\ Get(fitCfg).burn > 0
  /\ Get(fitCfg).draws > Get(fitCfg).burn

\* The across-draw average of the per-draw Student-t quantile at
\* probability p, for each row of X
QuantileEstimate(t, X, p) ==
  LET alpha == GetValues(t, "alpha")
      beta == GetValues(t, "beta")
      sigma == GetValues(t, "sigma")
      nu == GetValues(t, "nu")
  IN [i \in 1..Len(X) |->
        [inf |-> FALSE,
         sum |-> SumSeq([d \in 1..Len(alpha) |->
                   alpha[d].val + beta[d].val * X[i]
                     + sigma[d].val * StdQuantile(p, nu[d].val)]),
         n |-> Len(alpha)]]

\* The across-draw average of the per-draw Student-t mean, for each row
MeanEstimate(t, X) ==
  LET alpha == GetValues(t, "alpha")
      beta == GetValues(t, "beta")
      nu == GetValues(t, "nu")
  IN [i \in 1..Len(X) |->
        [inf |-> \E d \in 1..Len(nu) : nu[d].val <= 1,
         sum |-> SumSeq([d \in 1..Len(alpha) |->
                   IF nu[d].val > 1 THEN alpha[d].val + beta[d].val * X[i] ELSE 0]),
         n |-> Len(alpha)]]

\* What C8 promises of a predict call that was given X and q and
\* returned on trace t
ReturnsEstimates(call, t) ==
  /\ call.exc = NoExc
  /\ ~IsNone(call.result)
  /\ LET r == Get(call.result) IN
       /\ Len(r.dist) = Len(call.X)
       /\ IF IsNone(call.q)
          THEN r.est = << MeanEstimate(t, call.X) >>
          ELSE /\ Len(r.est) = Len(Get(call.q))
               /\ \A k \in 1..Len(Get(call.q)) :
                    r.est[k] = QuantileEstimate(t, call.X, Get(call.q)[k])

CvEnded == cvs.pc \in {"raised", "returned"}

\* C9: for n_splits >= 2 and at least n_splits observations, when every
\* call of func returns predictions for its fold, cv runs one cycle per
\* fold and returns exactly n_splits scores.
C9_CvReturnsOneScorePerFold ==
  (CvEnded /\ cvs.n_splits >= 2 /\ cvs.n >= cvs.n_splits
     /\ cvs.failed = {} /\ cvs.exc # "ValueError") =>
    /\ cvs.pc = "returned"
    /\ cvs.calls = cvs.n_splits
    /\ cvs.cv_scores.shape = << cvs.n_splits >>
    /\ Len(cvs.cv_scores.data) = cvs.n_splits

\* C9, the case: func returned as many predictions as the first fold has
\* responses
C9_Case ==
  /\ CvEnded /\ cvs.n_splits >= 2 /\ cvs.n >= cvs.n_splits
  /\ cvs.calls = 1 /\ cvs.pred = FoldSize(cvs.n, cvs.n_splits, 0)

\* C10: when a fold's func fails the run is not aborted: every fold is
\* still processed and cv returns.
C10_FoldFailureDoesNotAbort ==
  (CvEnded /\ cvs.failed # {}) =>
    /\ cvs.pc = "returned"
    /\ cvs.calls = cvs.n_splits

\* C10, the case: func raised in the first of several folds
C10_Case == CvEnded /\ cvs.failed = {0} /\ cvs.n_splits >= 2

====
